---- MODULE Spec2Model ----
(***************************************************************************)
(* Glyph store and resolution engine of theStranger                        *)
(* (firebase-storage.js, firebase-config.js).                              *)
(*                                                                         *)
(* JavaScript strings are sequences of string pieces, so that the prefix   *)
(* test, the prefix removal and the template strings of the code are       *)
(* computed on the text:  "" is << >>,  "a" is <<"a">>,                    *)
(* `local_glyph_${userId}_${char}` is                                      *)
(* <<"local_glyph_">> \o userId \o <<"_">> \o char.                        *)
(* A JavaScript value is a record [t |-> typeof, v |-> text].              *)
(***************************************************************************)
EXTENDS Integers, Sequences, FiniteSets, TLC

(***************************************************************************)
(* Bounds of the model.                                                    *)
(***************************************************************************)
MaxSaves == 2       \* saveLettering calls in one behaviour
MaxReads == 1       \* calls of the other functions in one behaviour
MaxImages == 2      \* Image objects of the drawing page whose load has not ended

(***************************************************************************)
(* Browsers and the pages (tabs) running in them.  Tabs of one browser     *)
(* share its localStorage.                                                 *)
(***************************************************************************)
Devices == {"d1", "d2"}
Tasks == {"t1", "t2"}
\* Math.random(): the suffix a browser draws; two browsers draw different ones
Random(d) == d
\* two tabs of one browser, or one page in each of two browsers
Placements == {[t \in Tasks |-> "d1"], [t \in Tasks |-> IF t = "t1" THEN "d1" ELSE "d2"]}

(***************************************************************************)
(* JavaScript values.                                                      *)
(***************************************************************************)
Str(s) == [t |-> "string", v |-> s]
Null == [t |-> "null", v |-> << >>]
Num5 == [t |-> "number", v |-> <<"5">>]
EmptyMap == << >>

Truthy(x) == x.t # "null" /\ x.v # << >>

StartsWith(s, p) == Len(s) >= Len(p) /\ SubSeq(s, 1, Len(p)) = p

RECURSIVE ReplaceFirst(_, _)
\* String.prototype.replace(p, ''): removes the first occurrence of p
ReplaceFirst(s, p) ==
    IF Len(s) < Len(p) THEN s
    ELSE IF StartsWith(s, p) THEN SubSeq(s, Len(p) + 1, Len(s))
    ELSE <<Head(s)>> \o ReplaceFirst(Tail(s), p)

CharA == <<"a">>
CharB == <<"b">>
Img1 == <<"data:image/", "png1">>
Img2 == <<"data:image/", "png2">>

\* arguments the callers may pass
CharInputs == {Str(CharA), Str(CharB), Str(<< >>), Null, Num5}
ImageInputs == {Str(Img1), Str(Img2), Str(<<"not-an-image">>), Str(<< >>), Num5}
NotArray == [isArray |-> FALSE, items |-> << >>]
Arr(items) == [isArray |-> TRUE, items |-> items]
RequiredInputs ==
    {NotArray, Arr(<<Str(CharA)>>), Arr(<<Str(CharA), Str(CharB)>>),
     Arr(<<Str(CharB), Str(<< >>), Num5>>)}

(***************************************************************************)
(* Faults of the environment.                                              *)
(***************************************************************************)
\* localStorage during one synchronous run of a function: it works; every
\* access throws (storage blocked); every setItem throws (storage read-only);
\* only the setItem of an image throws (quota exceeded)
StorageFaults == {"none", "readThrows", "writeThrows", "quotaExceeded"}
\* error.code of a rejected Firestore call
ErrorCodes == {"permission-denied", "unavailable", "internal"}
RemoteOutcomes == {"ok"} \cup ErrorCodes

(***************************************************************************)
(* Names of firebase-storage.js.                                           *)
(***************************************************************************)
USER_ID_KEY == <<"absurde_user_id">>
NoId == << >>

VARIABLES
    deviceOf,      \* the browser every page runs in
    db,            \* firebase-config.js: TRUE iff Firestore was initialised
    storage,       \* localStorage of every browser: key -> text
    clock,         \* per browser: Date.now() as seen by the next token it mints
    globalGlyphs,  \* collection globalGlyphs; the document id is the index
    userGlyphs,    \* collection userGlyphs: document id -> (field name -> value)
    task,          \* the call every page is running, with its local variables
    last,          \* the call that completed last (the n-th), with what it gave back
    saved,         \* history: <<userId, char>> -> images of the saves that returned an id
    saves,         \* number of saveLettering calls made so far
    reads,         \* number of calls of the other functions made so far
    ui             \* lettering.js: the module variables of the drawing page

vars == <<deviceOf, db, storage, clock, globalGlyphs, userGlyphs, task, last, saved, saves, reads, ui>>

(***************************************************************************)
(* localStorage.                                                           *)
(***************************************************************************)
getItem(ls, key) == IF key \in DOMAIN ls THEN Str(ls[key]) ELSE Null

setItem(ls, key, text) == [k \in DOMAIN ls \cup {key} |-> IF k = key THEN text ELSE ls[k]]

(***************************************************************************)
(* getUserId.  The result tells whether the call threw, the token, the     *)
(* localStorage it leaves and whether a token was minted.                  *)
(***************************************************************************)
\* 'user_' + Date.now() + '_' + Math.random().toString(36).substr(2, 9)
MintToken(now, rnd) == <<"user_", ToString(now), "_", rnd>>

getUserId_alwaysMint(ls, fault, now, rnd) ==
    [threw |-> FALSE, userId |-> MintToken(now, rnd),
     ls |-> setItem(ls, USER_ID_KEY, MintToken(now, rnd)), minted |-> TRUE]

getUserId(ls, fault, now, rnd) ==
    IF fault = "readThrows"
    THEN [threw |-> TRUE, userId |-> NoId, ls |-> ls, minted |-> FALSE]
    ELSE LET userId == getItem(ls, USER_ID_KEY) IN
         IF Truthy(userId)
         THEN [threw |-> FALSE, userId |-> userId.v, ls |-> ls, minted |-> FALSE]
         ELSE LET fresh == MintToken(now, rnd) IN
              IF fault = "writeThrows"
              THEN [threw |-> TRUE, userId |-> fresh, ls |-> ls, minted |-> TRUE]
              ELSE [threw |-> FALSE, userId |-> fresh,
                    ls |-> setItem(ls, USER_ID_KEY, fresh), minted |-> TRUE]

(***************************************************************************)
(* saveLettering: validation and the two stores.                           *)
(***************************************************************************)
ValidChar(char) == Truthy(char) /\ char.t = "string" /\ Len(char.v) # 0

ValidImage_anyString(imageData) == Truthy(imageData) /\ imageData.t = "string"

ValidImage(imageData) ==
    Truthy(imageData) /\ imageData.t = "string" /\ StartsWith(imageData.v, <<"data:image/">>)

LocalPrefix(userId) == <<"local_glyph_">> \o userId \o <<"_">>
\* try { localStorage.setItem(localKey, imageData) } catch { throw new Error(...) }
LocalSave_swallow(ls, key, text, fault) ==
    IF fault \in {"writeThrows", "quotaExceeded"}
    THEN [threw |-> FALSE, ls |-> ls]
    ELSE [threw |-> FALSE, ls |-> setItem(ls, key, text)]

\* a write that keeps the entry the key already has
LocalSave_keepFirst(ls, key, text, fault) ==
    IF fault \in {"writeThrows", "quotaExceeded"}
    THEN [threw |-> TRUE, ls |-> ls]
    ELSE [threw |-> FALSE, ls |-> IF key \in DOMAIN ls THEN ls ELSE setItem(ls, key, text)]

LocalSave(ls, key, text, fault) ==
    IF fault \in {"writeThrows", "quotaExceeded"}
    THEN [threw |-> TRUE, ls |-> ls]
    ELSE [threw |-> FALSE, ls |-> setItem(ls, key, text)]

LocalKey_noSeparator(userId, char) == <<"local_glyph_">> \o userId \o char

LocalKey(userId, char) == LocalPrefix(userId) \o char

\* addDoc(collection(db, 'globalGlyphs'), data): a new document with a new id
addDoc_overwrite(coll, data) ==
    IF \E i \in 1..Len(coll) :
           coll[i].char = data.char /\ coll[i].sourceUserId = data.sourceUserId
    THEN [i \in 1..Len(coll) |->
           IF coll[i].char = data.char /\ coll[i].sourceUserId = data.sourceUserId
           THEN data ELSE coll[i]]
    ELSE Append(coll, data)

addDoc(coll, data) == Append(coll, data)

\* `charMap.${char}`: the key of the object handed to setDoc
CharMapField(char) == <<"charMap.">> \o char

\* setDoc without { merge: true }: the document is replaced by data
setDocMerge_replace(coll, id, field, value) ==
    [d \in DOMAIN coll \cup {id} |->
        IF d = id THEN [f \in {field} |-> value] ELSE coll[d]]

\* setDoc(ref, data, {merge: true}) with a single key: the keys of data are
\* field names of the document (setDoc does not split them at dots, only
\* updateDoc does); the fields not named in data are kept
setDocMerge(coll, id, field, value) ==
    LET old == IF id \in DOMAIN coll THEN coll[id] ELSE EmptyMap IN
    [d \in DOMAIN coll \cup {id} |->
        IF d = id
        THEN [f \in DOMAIN old \cup {field} |-> IF f = field THEN value ELSE old[f]]
        ELSE coll[d]]

\* glyphRef.id, the string saveLettering returns: the id of the n-th
\* document of globalGlyphs
DocId(n) == <<n>>

\* userDoc.exists() ? (userDoc.data().charMap || {}) : {}
CharMapOf(coll, id) ==
    IF id \in DOMAIN coll /\ <<"charMap">> \in DOMAIN coll[id]
    THEN coll[id][<<"charMap">>]
    ELSE EmptyMap

\* the rethrow of saveLettering's catch block
SaveError(code) ==
    IF code = "permission-denied"
    THEN "Permission denied: Please check Firestore security rules"
    ELSE IF code = "unavailable"
    THEN "Firestore unavailable: Please check your internet connection"
    ELSE code

(***************************************************************************)
(* The localStorage branch of loadLetteringsForInteraction and of          *)
(* loadUserLetterings: the scan over localStorage.key(i).                  *)
(***************************************************************************)
LocalKeys(ls, userId) ==
    {k \in DOMAIN ls : StartsWith(k, LocalPrefix(userId)) /\ Truthy(getItem(ls, k))}

LocalChars(ls, userId) == {ReplaceFirst(k, LocalPrefix(userId)) : k \in LocalKeys(ls, userId)}

KeyOfChar(ls, userId, char) ==
    CHOOSE k \in LocalKeys(ls, userId) : ReplaceFirst(k, LocalPrefix(userId)) = char

\* { letteringImages, charMap } of loadLetteringsForInteraction when !db
LocalLetteringImages(ls, userId) ==
    [letteringImages |->
        [c \in LocalChars(ls, userId) |->
            [imageData |-> ls[KeyOfChar(ls, userId, c)], source |-> "user"]],
     charMap |-> [c \in LocalChars(ls, userId) |-> KeyOfChar(ls, userId, c)]]

\* letterings of loadUserLetterings when !db
LocalLetterings(ls, userId) ==
    [c \in LocalChars(ls, userId) |-> ls[KeyOfChar(ls, userId, c)]]

(***************************************************************************)
(* The Firestore branch of the two loaders, after getDoc of the user       *)
(* document returned: the glyph documents of the pointers in failed        *)
(* reject, the others are read.  A glyph document is never changed or      *)
(* deleted once added, so reading all of them in the step in which the     *)
(* user document arrives gives what the separate getDoc calls give.        *)
(***************************************************************************)
GlyphExists(coll, glyphId) == glyphId \in 1..Len(coll)

FetchedChars(coll, charMap, failed) ==
    {c \in DOMAIN charMap : c \notin failed /\ GlyphExists(coll, charMap[c])}

RemoteLetteringImages(coll, charMap, failed) ==
    [letteringImages |->
        [c \in FetchedChars(coll, charMap, failed) |->
            [imageData |-> coll[charMap[c]].imageData, source |-> "user"]],
     charMap |-> charMap]

RemoteLetterings(coll, charMap, failed) ==
    [c \in FetchedChars(coll, charMap, failed) |-> coll[charMap[c]].imageData]

(***************************************************************************)
(* loadAllLetteringsForInteraction.                                        *)
(***************************************************************************)
\* requiredChars.filter(char => typeof char === 'string' && char.length > 0)
RECURSIVE FilterValid(_)
FilterValid(items) ==
    IF items = << >> THEN << >>
    ELSE IF Head(items).t = "string" /\ Len(Head(items).v) > 0
         THEN <<Head(items).v>> \o FilterValid(Tail(items))
         ELSE FilterValid(Tail(items))

\* validChars.filter(char => !letteringImages[char])
RECURSIVE MissingChars(_, _)
MissingChars(validChars, images) ==
    IF validChars = << >> THEN << >>
    ELSE IF Head(validChars) \in DOMAIN images
         THEN MissingChars(Tail(validChars), images)
         ELSE <<Head(validChars)>> \o MissingChars(Tail(validChars), images)

Matches_noFilter(coll, char) == 1..Len(coll)

Matches_wrongField(coll, char) == {i \in 1..Len(coll) : coll[i].sourceUserId = char}

\* the query matching 'A' and 'a' alike
Matches_ignoreCase(coll, char) ==
    LET lower(c) == IF c = <<"A">> THEN <<"a">> ELSE c IN
    {i \in 1..Len(coll) : lower(coll[i].char) = lower(char)}

\* the documents of the query where('char', '==', char)
Matches(coll, char) == {i \in 1..Len(coll) : coll[i].char = char}

\* letteringImages[char] = { imageData, source }
PutImage(images, char, entry) ==
    [c \in DOMAIN images \cup {char} |-> IF c = char THEN entry ELSE images[c]]

\* what getRandomGlobalGlyph(char) returns: null without Firestore, null when
\* getDocs rejects (out) or finds nothing, else the image at randomIndex (pick)
QueryResult_placeholder(dbOn, coll, char, out, pick) ==
    IF ~dbOn THEN Str(<<"data:image/", "placeholder">>)
    ELSE IF out # "ok" \/ Matches(coll, char) = {} THEN Null
    ELSE Str(coll[pick].imageData)

QueryResult_hideErrorsOnly(dbOn, coll, char, out, pick) ==
    IF ~dbOn \/ out # "ok" THEN Null
    ELSE IF Matches(coll, char) = {} THEN Str(<< >>)
    ELSE Str(coll[pick].imageData)

QueryResult(dbOn, coll, char, out, pick) ==
    IF ~dbOn THEN Null
    ELSE IF out # "ok" \/ Matches(coll, char) = {} THEN Null
    ELSE Str(coll[pick].imageData)

\* step 2 of loadAllLetteringsForInteraction without Firestore: every
\* getRandomGlobalGlyph returns at once
RECURSIVE ResolveWithoutDb(_, _, _)
ResolveWithoutDb(images, missing, coll) ==
    IF missing = << >> THEN images
    ELSE LET globalImageData == QueryResult(FALSE, coll, Head(missing), "ok", 0) IN
         ResolveWithoutDb(
             IF Truthy(globalImageData)
             THEN PutImage(images, Head(missing),
                      [imageData |-> globalImageData.v, source |-> "global"])
             ELSE images,
             Tail(missing), coll)

(***************************************************************************)
(* Pages.                                                                  *)
(***************************************************************************)
IdleTask ==
    [pc |-> "idle", op |-> "none", userId |-> NoId, char |-> << >>,
     imageData |-> << >>, glyphId |-> 0, required |-> NotArray,
     missing |-> << >>, images |-> EmptyMap,
     pending |-> {}, snap |-> {}, qfail |-> {}, ownFail |-> FALSE,
     wrapped |-> FALSE, loaded |-> EmptyMap, broken |-> {}]

NoCall ==
    [n |-> 0, op |-> "none", device |-> "none", userId |-> NoId, outcome |-> "none", error |-> "none",
     value |-> << >>, char |-> Null, imageData |-> Null, required |-> NotArray,
     fault |-> "none", minted |-> FALSE, before |-> Null, snap |-> {},
     qfail |-> {}, ownFail |-> FALSE, remote |-> FALSE,
     data |-> EmptyMap, broken |-> {}]

\* saved with one more image for <<userId, char>>
Remember(userId, char, imageData) ==
    LET k == <<userId, char>> IN
    [x \in DOMAIN saved \cup {k} |->
        IF x = k
        THEN (IF k \in DOMAIN saved THEN Append(saved[k], imageData) ELSE <<imageData>>)
        ELSE saved[x]]

\* lettering.js before init(): no drawing page is open
NoPage ==
    [letterings |-> EmptyMap, currentCharacter |-> Null, canvas |-> << >>,
     images |-> {}, calls |-> {},
     done |-> [k |-> 0, char |-> << >>, imageData |-> << >>, outcome |-> "none"]]

Init ==
    /\ deviceOf \in Placements
    /\ db \in BOOLEAN
    /\ storage = [d \in Devices |-> EmptyMap]
    /\ clock = [d \in Devices |-> 1]
    /\ globalGlyphs = << >>
    /\ userGlyphs = EmptyMap
    /\ task = [t \in Tasks |-> IdleTask]
    /\ last = NoCall
    /\ saved = EmptyMap
    /\ saves = 0
    /\ reads = 0
    /\ ui = NoPage

\* the call of page t ends: it returns or throws
Complete(t, rec) ==
    /\ task' = [task EXCEPT ![t] = IdleTask]
    /\ last' = [rec EXCEPT !.n = last.n + 1]

Record(t, op, outcome, error, value) ==
    [NoCall EXCEPT !.op = op, !.userId = task[t].userId,
                   !.outcome = outcome, !.error = error, !.value = value,
                   !.char = Str(task[t].char), !.imageData = Str(task[t].imageData),
                   !.required = task[t].required,
                   !.snap = task[t].snap, !.qfail = task[t].qfail,
                   !.ownFail = task[t].ownFail, !.remote = TRUE]

(***************************************************************************)
(* loadCustomLetteringsFromFirebase (interaction-firebase.js): the part    *)
(* after loadAllLetteringsForInteraction returned letteringData.           *)
(***************************************************************************)
\* what loadCustomLetteringsFromFirebase returns: character -> img.src
CustomRecord(me) ==
    [NoCall EXCEPT !.op = "custom", !.userId = me.userId, !.outcome = "returned",
                   !.value = me.loaded, !.required = me.required,
                   !.snap = me.snap, !.qfail = me.qfail, !.ownFail = me.ownFail,
                   !.remote = db, !.data = me.images, !.broken = me.broken]

\* the loop over Object.entries(letteringData) starts; with no entry the
\* function returns {}
EnterImages(t, me, letteringData) ==
    LET next == [me EXCEPT !.pc = "images", !.op = "custom", !.images = letteringData,
                           !.loaded = EmptyMap, !.broken = {}]
    IN  IF DOMAIN letteringData = {}
        THEN Complete(t, CustomRecord(next))
        ELSE /\ task' = [task EXCEPT ![t] = next]
             /\ UNCHANGED last

\* loadAllLetteringsForInteraction returns, to its caller or to
\* loadCustomLetteringsFromFirebase
ResolveDone(t, rec) ==
    IF task[t].wrapped
    THEN EnterImages(t, [task[t] EXCEPT !.qfail = rec.qfail, !.ownFail = rec.ownFail],
                     rec.value)
    ELSE Complete(t, rec)

(***************************************************************************)
(* getUserId called by a page (lettering.js init, interaction-firebase.js) *)
(***************************************************************************)
GetUserIdCall(t, fault) ==
    LET d == deviceOf[t]
        g == getUserId(storage[d], fault, clock[d], Random(d))
    IN  /\ task[t].pc = "idle"
        /\ reads < MaxReads
        /\ reads' = reads + 1
        /\ UNCHANGED saves
        /\ clock' = IF g.minted THEN [clock EXCEPT ![d] = @ + 1] ELSE clock
        /\ storage' = [storage EXCEPT ![d] = g.ls]
        /\ Complete(t, [NoCall EXCEPT !.op = "getUserId", !.device = d,
                            !.userId = g.userId, !.fault = fault,
                            !.outcome = IF g.threw THEN "threw" ELSE "returned",
                            !.error = IF g.threw THEN "localStorage" ELSE "none",
                            !.value = g.userId, !.minted = g.minted,
                            !.before = getItem(storage[d], USER_ID_KEY)])
        /\ UNCHANGED <<ui, deviceOf, db, globalGlyphs, userGlyphs, saved>>

(***************************************************************************)
(* saveLettering(char, imageData)                                          *)
(***************************************************************************)
\* the synchronous part: validation, getUserId, the localStorage branch
\* the drawing is written to localStorage in Firestore mode as well
SaveCall_writeThrough(t, char, imageData, fault) ==
    LET d == deviceOf[t]
        g == getUserId(storage[d], fault, clock[d], Random(d))
        rec == [NoCall EXCEPT !.op = "save", !.char = char, !.imageData = imageData,
                              !.fault = fault]
        localKey == LocalKey(g.userId, char.v)
        w == LocalSave(g.ls, localKey, imageData.v, fault)
    IN  /\ task[t].pc = "idle"
        /\ saves < MaxSaves
        /\ saves' = saves + 1
        /\ UNCHANGED reads
        /\ IF ~ValidChar(char)
           THEN /\ Complete(t, [rec EXCEPT !.outcome = "threw",
                       !.error = "Invalid character: must be a non-empty string"])
                /\ UNCHANGED <<storage, clock, saved>>
           ELSE IF ~ValidImage(imageData)
           THEN /\ Complete(t, [rec EXCEPT !.outcome = "threw",
                       !.error = "Invalid imageData: must be a data URL string"])
                /\ UNCHANGED <<storage, clock, saved>>
           ELSE /\ clock' = IF g.minted THEN [clock EXCEPT ![d] = @ + 1] ELSE clock
                /\ IF g.threw
                   THEN /\ Complete(t, [rec EXCEPT !.outcome = "threw",
                               !.error = "localStorage"])
                        /\ UNCHANGED <<storage, saved>>
                   ELSE IF ~db
                   THEN IF w.threw
                        THEN /\ storage' = [storage EXCEPT ![d] = g.ls]
                             /\ Complete(t, [rec EXCEPT !.userId = g.userId,
                                    !.outcome = "threw",
                                    !.error = "Failed to save: localStorage not available"])
                             /\ UNCHANGED saved
                        ELSE /\ storage' = [storage EXCEPT ![d] = w.ls]
                             /\ saved' = Remember(g.userId, char.v, imageData.v)
                             /\ Complete(t, [rec EXCEPT !.userId = g.userId,
                                    !.outcome = "returned", !.value = localKey])
                   ELSE /\ storage' = [storage EXCEPT ![d] = w.ls]
                        /\ task' = [task EXCEPT ![t] =
                               [IdleTask EXCEPT !.pc = "addDoc", !.op = "save",
                                    !.userId = g.userId, !.char = char.v,
                                    !.imageData = imageData.v]]
                        /\ UNCHANGED <<last, saved>>
        /\ UNCHANGED <<ui, deviceOf, db, globalGlyphs, userGlyphs>>

SaveCall(t, char, imageData, fault) ==
    LET d == deviceOf[t]
        g == getUserId(storage[d], fault, clock[d], Random(d))
        rec == [NoCall EXCEPT !.op = "save", !.char = char, !.imageData = imageData,
                              !.fault = fault]
        localKey == LocalKey(g.userId, char.v)
        w == LocalSave(g.ls, localKey, imageData.v, fault)
    IN  /\ task[t].pc = "idle"
        /\ saves < MaxSaves
        /\ saves' = saves + 1
        /\ UNCHANGED reads
        /\ IF ~ValidChar(char)
           THEN /\ Complete(t, [rec EXCEPT !.outcome = "threw",
                       !.error = "Invalid character: must be a non-empty string"])
                /\ UNCHANGED <<storage, clock, saved>>
           ELSE IF ~ValidImage(imageData)
           THEN /\ Complete(t, [rec EXCEPT !.outcome = "threw",
                       !.error = "Invalid imageData: must be a data URL string"])
                /\ UNCHANGED <<storage, clock, saved>>
           ELSE /\ clock' = IF g.minted THEN [clock EXCEPT ![d] = @ + 1] ELSE clock
                /\ IF g.threw
                   THEN /\ Complete(t, [rec EXCEPT !.outcome = "threw",
                               !.error = "localStorage"])
                        /\ UNCHANGED <<storage, saved>>
                   ELSE IF ~db
                   THEN IF w.threw
                        THEN /\ storage' = [storage EXCEPT ![d] = g.ls]
                             /\ Complete(t, [rec EXCEPT !.userId = g.userId,
                                    !.outcome = "threw",
                                    !.error = "Failed to save: localStorage not available"])
                             /\ UNCHANGED saved
                        ELSE /\ storage' = [storage EXCEPT ![d] = w.ls]
                             /\ saved' = Remember(g.userId, char.v, imageData.v)
                             /\ Complete(t, [rec EXCEPT !.userId = g.userId,
                                    !.outcome = "returned", !.value = localKey])
                   ELSE /\ storage' = [storage EXCEPT ![d] = g.ls]
                        /\ task' = [task EXCEPT ![t] =
                               [IdleTask EXCEPT !.pc = "addDoc", !.op = "save",
                                    !.userId = g.userId, !.char = char.v,
                                    !.imageData = imageData.v]]
                        /\ UNCHANGED <<last, saved>>
        /\ UNCHANGED <<ui, deviceOf, db, globalGlyphs, userGlyphs>>

\* 1. await addDoc(collection(db, 'globalGlyphs'), {...})
AddDocStep(t, out) ==
    /\ task[t].pc = "addDoc"
    /\ IF out = "ok"
       THEN /\ globalGlyphs' = addDoc(globalGlyphs,
                   [char |-> task[t].char, imageData |-> task[t].imageData,
                    sourceUserId |-> task[t].userId])
            /\ task' = [task EXCEPT ![t].pc = "setDoc",
                                    ![t].glyphId = Len(globalGlyphs')]
            /\ UNCHANGED last
       ELSE /\ Complete(t, Record(t, "save", "threw", SaveError(out), << >>))
            /\ UNCHANGED globalGlyphs
    /\ UNCHANGED <<ui, deviceOf, db, storage, clock, userGlyphs, saved, saves, reads>>

\* 2. await setDoc(userGlyphRef, { [`charMap.${char}`]: glyphId }, { merge: true })
SetDocStep_writesThenFails(t, out) ==
    /\ task[t].pc = "setDoc"
    /\ userGlyphs' = setDocMerge(userGlyphs, task[t].userId,
                          CharMapField(task[t].char), task[t].glyphId)
    /\ IF out = "ok"
       THEN /\ saved' = Remember(task[t].userId, task[t].char, task[t].imageData)
            /\ Complete(t, Record(t, "save", "returned", "none", DocId(task[t].glyphId)))
       ELSE /\ Complete(t, Record(t, "save", "threw", SaveError(out), << >>))
            /\ UNCHANGED saved
    /\ UNCHANGED <<ui, deviceOf, db, storage, clock, globalGlyphs, saves, reads>>

SetDocStep_fallsBackToLocal(t, out) ==
    LET d == deviceOf[t]
        localKey == LocalKey(task[t].userId, task[t].char)
    IN  /\ task[t].pc = "setDoc"
        /\ IF out = "ok"
           THEN /\ userGlyphs' = setDocMerge(userGlyphs, task[t].userId,
                                      CharMapField(task[t].char), task[t].glyphId)
                /\ saved' = Remember(task[t].userId, task[t].char, task[t].imageData)
                /\ Complete(t, Record(t, "save", "returned", "none", DocId(task[t].glyphId)))
                /\ UNCHANGED storage
           ELSE /\ storage' = [storage EXCEPT
                                  ![d] = setItem(@, localKey, task[t].imageData)]
                /\ Complete(t, Record(t, "save", "returned", "none", localKey))
                /\ UNCHANGED <<userGlyphs, saved>>
        /\ UNCHANGED <<ui, deviceOf, db, clock, globalGlyphs, saves, reads>>

\* the pointer is set to the newest document of the pool, not to the one
\* this call added
SetDocStep_pointsAtNewest(t, out) ==
    /\ task[t].pc = "setDoc"
    /\ IF out = "ok"
       THEN /\ userGlyphs' = setDocMerge(userGlyphs, task[t].userId,
                                  CharMapField(task[t].char), Len(globalGlyphs))
            /\ saved' = Remember(task[t].userId, task[t].char, task[t].imageData)
            /\ Complete(t, Record(t, "save", "returned", "none", DocId(task[t].glyphId)))
       ELSE /\ Complete(t, Record(t, "save", "threw", SaveError(out), << >>))
            /\ UNCHANGED <<userGlyphs, saved>>
    /\ UNCHANGED <<ui, deviceOf, db, storage, clock, globalGlyphs, saves, reads>>

SetDocStep(t, out) ==
    /\ task[t].pc = "setDoc"
    /\ IF out = "ok"
       THEN /\ userGlyphs' = setDocMerge(userGlyphs, task[t].userId,
                                  CharMapField(task[t].char), task[t].glyphId)
            /\ saved' = Remember(task[t].userId, task[t].char, task[t].imageData)
            /\ Complete(t, Record(t, "save", "returned", "none", DocId(task[t].glyphId)))
       ELSE /\ Complete(t, Record(t, "save", "threw", SaveError(out), << >>))
            /\ UNCHANGED <<userGlyphs, saved>>
    /\ UNCHANGED <<ui, deviceOf, db, storage, clock, globalGlyphs, saves, reads>>

(***************************************************************************)
(* loadLetteringsForInteraction() and loadUserLetterings()                 *)
(***************************************************************************)
Loaders == {"loadLetteringsForInteraction", "loadUserLetterings"}

\* the synchronous part: getUserId and the localStorage branch
LoadCall(t, fn, fault) ==
    LET d == deviceOf[t]
        g == getUserId(storage[d], fault, clock[d], Random(d))
        rec == [NoCall EXCEPT !.op = fn, !.userId = g.userId]
    IN  /\ task[t].pc = "idle"
        /\ reads < MaxReads
        /\ reads' = reads + 1
        /\ UNCHANGED saves
        /\ clock' = IF g.minted THEN [clock EXCEPT ![d] = @ + 1] ELSE clock
        /\ storage' = [storage EXCEPT ![d] = g.ls]
        /\ IF g.threw
           THEN Complete(t, [rec EXCEPT !.outcome = "threw", !.error = "localStorage"])
           ELSE IF ~db
           THEN Complete(t, [rec EXCEPT !.outcome = "returned",
                    !.value = IF fn = "loadUserLetterings"
                              THEN LocalLetterings(g.ls, g.userId)
                              ELSE LocalLetteringImages(g.ls, g.userId)])
           ELSE /\ task' = [task EXCEPT ![t] =
                       [IdleTask EXCEPT !.pc = "getUserDoc", !.op = fn,
                                        !.userId = g.userId]]
                /\ UNCHANGED last
        /\ UNCHANGED <<ui, deviceOf, db, globalGlyphs, userGlyphs, saved>>

(***************************************************************************)
(* loadAllLetteringsForInteraction(requiredChars)                          *)
(***************************************************************************)
\* the synchronous part: validation, then loadLetteringsForInteraction up to
\* its first Firestore call; without Firestore every getRandomGlobalGlyph
\* returns null and the call ends here
ResolveCall(t, required, fault) ==
    LET d == deviceOf[t]
        g == getUserId(storage[d], fault, clock[d], Random(d))
        rec == [NoCall EXCEPT !.op = "resolve", !.required = required]
        own == LocalLetteringImages(g.ls, g.userId).letteringImages
    IN  /\ task[t].pc = "idle"
        /\ reads < MaxReads
        /\ reads' = reads + 1
        /\ UNCHANGED saves
        /\ IF ~required.isArray
           THEN /\ Complete(t, [rec EXCEPT !.outcome = "returned", !.value = EmptyMap])
                /\ UNCHANGED <<storage, clock>>
           ELSE /\ clock' = IF g.minted THEN [clock EXCEPT ![d] = @ + 1] ELSE clock
                /\ storage' = [storage EXCEPT ![d] = g.ls]
                /\ IF g.threw
                   THEN Complete(t, [rec EXCEPT !.outcome = "threw",
                            !.error = "localStorage"])
                   ELSE IF ~db
                   THEN Complete(t, [rec EXCEPT !.outcome = "returned",
                            !.userId = g.userId, !.snap = DOMAIN saved,
                            !.value = ResolveWithoutDb(own,
                                          MissingChars(FilterValid(required.items), own),
                                          globalGlyphs)])
                   ELSE /\ task' = [task EXCEPT ![t] =
                               [IdleTask EXCEPT !.pc = "getUserDoc", !.op = "resolve",
                                    !.userId = g.userId, !.required = required,
                                    !.snap = DOMAIN saved]]
                        /\ UNCHANGED last
        /\ UNCHANGED <<ui, deviceOf, db, globalGlyphs, userGlyphs, saved>>

(***************************************************************************)
(* await getDoc(userGlyphRef) returns or rejects, in the two loaders and   *)
(* in step 1 of loadAllLetteringsForInteraction; the glyph documents of    *)
(* the pointers are fetched.                                               *)
(***************************************************************************)
\* loadLetteringsForInteraction without its catch: a rejected getDoc makes
\* loadAllLetteringsForInteraction throw
UserDocStep_rethrow(t, out, failed) ==
    LET op == task[t].op
        charMap == IF out = "ok" THEN CharMapOf(userGlyphs, task[t].userId) ELSE EmptyMap
        loaded == RemoteLetteringImages(globalGlyphs, charMap, failed)
        missing == MissingChars(FilterValid(task[t].required.items), loaded.letteringImages)
        me == [task[t] EXCEPT !.ownFail = (out # "ok")]
    IN  /\ task[t].pc = "getUserDoc"
        /\ failed \in SUBSET (DOMAIN charMap)
        /\ IF op = "resolve" /\ out # "ok"
           THEN Complete(t, [Record(t, op, "threw", out, << >>) EXCEPT !.ownFail = TRUE])
           ELSE IF op = "loadLetteringsForInteraction"
           THEN Complete(t, [Record(t, op, "returned", "none", loaded)
                                EXCEPT !.ownFail = (out # "ok")])
           ELSE IF op = "loadUserLetterings"
           THEN Complete(t, [Record(t, op, "returned", "none",
                                    RemoteLetterings(globalGlyphs, charMap, failed))
                                EXCEPT !.ownFail = (out # "ok")])
           ELSE IF missing = << >>
           THEN ResolveDone(t, [Record(t, op, "returned", "none", loaded.letteringImages)
                                EXCEPT !.ownFail = (out # "ok")])
           ELSE /\ task' = [task EXCEPT ![t] =
                       [me EXCEPT !.pc = "global", !.images = loaded.letteringImages,
                                  !.missing = missing, !.pending = 1..Len(missing)]]
                /\ UNCHANGED last
        /\ UNCHANGED <<ui, deviceOf, db, storage, clock, globalGlyphs, userGlyphs, saved, saves, reads>>

UserDocStep(t, out, failed) ==
    LET op == task[t].op
        charMap == IF out = "ok" THEN CharMapOf(userGlyphs, task[t].userId) ELSE EmptyMap
        loaded == RemoteLetteringImages(globalGlyphs, charMap, failed)
        missing == MissingChars(FilterValid(task[t].required.items), loaded.letteringImages)
        me == [task[t] EXCEPT !.ownFail = (out # "ok")]
    IN  /\ task[t].pc = "getUserDoc"
        /\ failed \in SUBSET (DOMAIN charMap)
        /\ IF op = "loadLetteringsForInteraction"
           THEN Complete(t, [Record(t, op, "returned", "none", loaded)
                                EXCEPT !.ownFail = (out # "ok")])
           ELSE IF op = "loadUserLetterings"
           THEN Complete(t, [Record(t, op, "returned", "none",
                                    RemoteLetterings(globalGlyphs, charMap, failed))
                                EXCEPT !.ownFail = (out # "ok")])
           ELSE IF missing = << >>
           THEN ResolveDone(t, [Record(t, op, "returned", "none", loaded.letteringImages)
                                EXCEPT !.ownFail = (out # "ok")])
           ELSE /\ task' = [task EXCEPT ![t] =
                       [me EXCEPT !.pc = "global", !.images = loaded.letteringImages,
                                  !.missing = missing, !.pending = 1..Len(missing)]]
                /\ UNCHANGED last
        /\ UNCHANGED <<ui, deviceOf, db, storage, clock, globalGlyphs, userGlyphs, saved, saves, reads>>

(***************************************************************************)
(* getRandomGlobalGlyph(char) of one missing character: await getDocs(q)   *)
(* returns or rejects; pick is the document at randomIndex.  The call      *)
(* returns once the last query is settled (Promise.all).                   *)
(***************************************************************************)
GlobalQueryStep_failFast(t, i, out, pick) ==
    LET char == task[t].missing[i]
        found == out = "ok" /\ Matches(globalGlyphs, char) # {}
        globalImageData == QueryResult(db, globalGlyphs, char, out, pick)
        images == IF Truthy(globalImageData)
                  THEN PutImage(task[t].images, char,
                           [imageData |-> globalImageData.v, source |-> "global"])
                  ELSE task[t].images
        me == [task[t] EXCEPT !.images = images, !.pending = @ \ {i},
                   !.qfail = IF out = "ok" THEN @ ELSE @ \cup {char}]
    IN  /\ task[t].pc = "global"
        /\ i \in task[t].pending
        /\ pick \in (IF found THEN Matches(globalGlyphs, char) ELSE {0})
        /\ IF out # "ok"
           THEN Complete(t, [Record(t, "resolve", "threw", out, << >>)
                                EXCEPT !.qfail = me.qfail])
           ELSE IF me.pending = {}
           THEN ResolveDone(t, [Record(t, "resolve", "returned", "none", images)
                                EXCEPT !.qfail = me.qfail])
           ELSE /\ task' = [task EXCEPT ![t] = me]
                /\ UNCHANGED last
        /\ UNCHANGED <<ui, deviceOf, db, storage, clock, globalGlyphs, userGlyphs, saved, saves, reads>>

\* Promise.race in place of Promise.all: the call returns with the first
\* query that settles
GlobalQueryStep_race(t, i, out, pick) ==
    LET char == task[t].missing[i]
        found == out = "ok" /\ Matches(globalGlyphs, char) # {}
        globalImageData == QueryResult(db, globalGlyphs, char, out, pick)
        images == IF Truthy(globalImageData)
                  THEN PutImage(task[t].images, char,
                           [imageData |-> globalImageData.v, source |-> "global"])
                  ELSE task[t].images
        me == [task[t] EXCEPT !.images = images, !.pending = @ \ {i},
                   !.qfail = IF out = "ok" THEN @ ELSE @ \cup {char}]
    IN  /\ task[t].pc = "global"
        /\ i \in task[t].pending
        /\ pick \in (IF found THEN Matches(globalGlyphs, char) ELSE {0})
        /\ ResolveDone(t, [Record(t, "resolve", "returned", "none", images)
                                EXCEPT !.qfail = me.qfail])
        /\ UNCHANGED <<ui, deviceOf, db, storage, clock, globalGlyphs, userGlyphs, saved, saves, reads>>

\* a glyph found in the pool is adopted: the identity's user document gets a
\* pointer to it
GlobalQueryStep_adopt(t, i, out, pick) ==
    LET char == task[t].missing[i]
        found == out = "ok" /\ Matches(globalGlyphs, char) # {}
        globalImageData == QueryResult(db, globalGlyphs, char, out, pick)
        images == IF Truthy(globalImageData)
                  THEN PutImage(task[t].images, char,
                           [imageData |-> globalImageData.v, source |-> "global"])
                  ELSE task[t].images
        me == [task[t] EXCEPT !.images = images, !.pending = @ \ {i},
                   !.qfail = IF out = "ok" THEN @ ELSE @ \cup {char}]
    IN  /\ task[t].pc = "global"
        /\ i \in task[t].pending
        /\ pick \in (IF found THEN Matches(globalGlyphs, char) ELSE {0})
        /\ IF me.pending = {}
           THEN ResolveDone(t, [Record(t, "resolve", "returned", "none", images)
                                EXCEPT !.qfail = me.qfail])
           ELSE /\ task' = [task EXCEPT ![t] = me]
                /\ UNCHANGED last
        /\ userGlyphs' = IF found
                         THEN setDocMerge(userGlyphs, task[t].userId, CharMapField(char), pick)
                         ELSE userGlyphs
        /\ UNCHANGED <<ui, deviceOf, db, storage, clock, globalGlyphs, saved, saves, reads>>

GlobalQueryStep(t, i, out, pick) ==
    LET char == task[t].missing[i]
        found == out = "ok" /\ Matches(globalGlyphs, char) # {}
        globalImageData == QueryResult(db, globalGlyphs, char, out, pick)
        images == IF Truthy(globalImageData)
                  THEN PutImage(task[t].images, char,
                           [imageData |-> globalImageData.v, source |-> "global"])
                  ELSE task[t].images
        me == [task[t] EXCEPT !.images = images, !.pending = @ \ {i},
                   !.qfail = IF out = "ok" THEN @ ELSE @ \cup {char}]
    IN  /\ task[t].pc = "global"
        /\ i \in task[t].pending
        /\ pick \in (IF found THEN Matches(globalGlyphs, char) ELSE {0})
        /\ IF me.pending = {}
           THEN ResolveDone(t, [Record(t, "resolve", "returned", "none", images)
                                EXCEPT !.qfail = me.qfail])
           ELSE /\ task' = [task EXCEPT ![t] = me]
                /\ UNCHANGED last
        /\ UNCHANGED <<ui, deviceOf, db, storage, clock, globalGlyphs, userGlyphs, saved, saves, reads>>

(***************************************************************************)
(* getRandomGlobalGlyph(char) called by a page.                            *)
(***************************************************************************)
QueryCall(t, char) ==
    /\ task[t].pc = "idle"
    /\ reads < MaxReads
    /\ reads' = reads + 1
    /\ IF ~db
       THEN Complete(t, [NoCall EXCEPT !.op = "query", !.char = Str(char),
                            !.outcome = "returned",
                            !.value = QueryResult(db, globalGlyphs, char, "ok", 0)])
       ELSE /\ task' = [task EXCEPT ![t] =
                   [IdleTask EXCEPT !.pc = "query", !.op = "query", !.char = char]]
            /\ UNCHANGED last
    /\ UNCHANGED <<ui, deviceOf, db, storage, clock, globalGlyphs, userGlyphs, saved, saves>>

\* await getDocs(q) returns or rejects
QueryStep(t, out, pick) ==
    LET char == task[t].char IN
    /\ task[t].pc = "query"
    /\ pick \in (IF out = "ok" /\ Matches(globalGlyphs, char) # {}
                 THEN Matches(globalGlyphs, char) ELSE {0})
    /\ Complete(t, [Record(t, "query", "returned", "none",
                           QueryResult(db, globalGlyphs, char, out, pick))
                       EXCEPT !.qfail = IF out = "ok" THEN {} ELSE {char}])
    /\ UNCHANGED <<ui, deviceOf, db, storage, clock, globalGlyphs, userGlyphs, saved, saves, reads>>

(***************************************************************************)
(* loadCustomLetteringsFromFirebase(requiredChars)                         *)
(***************************************************************************)
\* one turn of the loop: the Image of char fires onload (ok) or onerror
ImageResult_keepBroken(loaded, char, imageData, ok) ==
    [c \in DOMAIN loaded \cup {char} |-> IF c = char THEN imageData ELSE loaded[c]]

ImageResult(loaded, char, imageData, ok) ==
    IF ok
    THEN [c \in DOMAIN loaded \cup {char} |-> IF c = char THEN imageData ELSE loaded[c]]
    ELSE loaded

\* the synchronous part: getUserId() for the log line, then
\* loadAllLetteringsForInteraction up to its first Firestore call; whatever
\* is thrown is caught and {} returned
CustomCall(t, required, fault) ==
    LET d == deviceOf[t]
        g1 == getUserId(storage[d], fault, clock[d], Random(d))
        g == getUserId(g1.ls, fault, IF g1.minted THEN clock[d] + 1 ELSE clock[d], Random(d))
        inner == ~g1.threw /\ required.isArray
        own == LocalLetteringImages(g.ls, g.userId).letteringImages
        me == [IdleTask EXCEPT !.op = "custom", !.userId = g.userId, !.required = required,
                               !.snap = DOMAIN saved, !.wrapped = TRUE]
    IN  /\ task[t].pc = "idle"
        /\ reads < MaxReads
        /\ reads' = reads + 1
        /\ UNCHANGED saves
        /\ clock' = IF g1.minted \/ (inner /\ g.minted)
                    THEN [clock EXCEPT ![d] = @ + 1] ELSE clock
        /\ storage' = [storage EXCEPT ![d] = IF inner THEN g.ls ELSE g1.ls]
        /\ IF g1.threw \/ ~required.isArray \/ g.threw
           THEN Complete(t, [NoCall EXCEPT !.op = "custom", !.outcome = "returned",
                                !.required = required, !.fault = fault,
                                !.value = EmptyMap])
           ELSE IF ~db
           THEN EnterImages(t, me,
                    ResolveWithoutDb(own, MissingChars(FilterValid(required.items), own),
                                     globalGlyphs))
           ELSE /\ task' = [task EXCEPT ![t] = [me EXCEPT !.pc = "getUserDoc",
                                                            !.op = "resolve"]]
                /\ UNCHANGED last
        /\ UNCHANGED <<ui, deviceOf, db, globalGlyphs, userGlyphs, saved>>

\* img.onload or img.onerror of the entry the loop is at (the entries are
\* taken one after the other; the order does not change the result)
ImageStep(t, ok) ==
    LET todo == DOMAIN task[t].images \ (DOMAIN task[t].loaded \cup task[t].broken)
        char == CHOOSE c \in todo : TRUE
        me == [task[t] EXCEPT
                  !.loaded = ImageResult(@, char, task[t].images[char].imageData, ok),
                  !.broken = IF ok THEN @ ELSE @ \cup {char}]
    IN  /\ task[t].pc = "images"
        /\ IF todo = {char}
           THEN Complete(t, CustomRecord(me))
           ELSE /\ task' = [task EXCEPT ![t] = me]
                /\ UNCHANGED last
        /\ UNCHANGED <<ui, deviceOf, db, storage, clock, globalGlyphs, userGlyphs, saved, saves, reads>>

(***************************************************************************)
(* The pages are loaded again and firebase-config.js is evaluated again:   *)
(* with the placeholder configuration, or when initializeApp throws, db    *)
(* stays null; otherwise db is the Firestore handle.  localStorage and the *)
(* Firestore collections are kept.                                         *)
(***************************************************************************)
Reload(dbOn) ==
    /\ \A t \in Tasks : task[t].pc = "idle"
    /\ dbOn # db
    /\ db' = dbOn
    /\ UNCHANGED <<ui, deviceOf, storage, clock, globalGlyphs, userGlyphs, task, last, saved,
                   saves, reads>>

(***************************************************************************)
(* lettering.js: the drawing page.  ui holds its module variables:         *)
(* letterings, currentCharacter, the picture on the canvas, the Image      *)
(* objects whose load has not ended (with the character whose drawing was  *)
(* asked for), the saveAndNext calls that wait for saveLettering, and the  *)
(* saveAndNext that ended last.  The page runs in browser d1.              *)
(***************************************************************************)
CharC == <<"c">>
\* extractUniqueCharacters(): the letters of SENTENCE, sorted; three of them
uniqueCharacters == <<CharA, CharB, CharC>>
Letters == {uniqueCharacters[i] : i \in 1..Len(uniqueCharacters)}
\* the picture the user draws in this visit; Img1 is the one of earlier visits
Drawings == {Img2}
\* canvas.toDataURL('image/png') of an empty canvas
ImgBlank == <<"data:image/", "png0">>
PageDevice == "d1"

toDataURL(canvas) == IF canvas = << >> THEN ImgBlank ELSE canvas

\* letterings[char] is truthy
HasLettering(letterings, char) == char \in DOMAIN letterings /\ letterings[char] # << >>

\* uniqueCharacters.indexOf(char), counted from 1; 0 when absent
IndexOf(char) ==
    IF \E i \in 1..Len(uniqueCharacters) : uniqueCharacters[i] = char
    THEN CHOOSE i \in 1..Len(uniqueCharacters) : uniqueCharacters[i] = char
    ELSE 0

First(S) == CHOOSE i \in S : \A j \in S : i <= j

\* the scan without its second loop
findNextUnfinishedCharacter_noWrap(letterings, currentCharacter) ==
    LET currentIndex == IndexOf(currentCharacter.v)
        after == {i \in (currentIndex + 1)..Len(uniqueCharacters) :
                     ~HasLettering(letterings, uniqueCharacters[i])}
    IN  IF after # {} THEN Str(uniqueCharacters[First(after)]) ELSE Null

findNextUnfinishedCharacter(letterings, currentCharacter) ==
    LET currentIndex == IndexOf(currentCharacter.v)
        after == {i \in (currentIndex + 1)..Len(uniqueCharacters) :
                     ~HasLettering(letterings, uniqueCharacters[i])}
        before == {i \in 1..(currentIndex - 1) :
                      ~HasLettering(letterings, uniqueCharacters[i])}
    IN  IF after # {} THEN Str(uniqueCharacters[First(after)])
        ELSE IF before # {} THEN Str(uniqueCharacters[First(before)])
        ELSE Null

\* letterings[char] = dataURL
PutLettering(letterings, char, dataURL) ==
    [c \in DOMAIN letterings \cup {char} |-> IF c = char THEN dataURL ELSE letterings[c]]

\* delete letterings[char]
DeleteLettering(letterings, char) == [c \in DOMAIN letterings \ {char} |-> letterings[c]]

\* loadCharacterDrawing(): the canvas is cleared and, when the current
\* character has a lettering, an Image is given it as src
loadCharacterDrawing(u) ==
    LET char == u.currentCharacter.v IN
    [u EXCEPT !.canvas = << >>,
              !.images = IF HasLettering(u.letterings, char)
                         THEN @ \cup {[char |-> char, src |-> u.letterings[char]]}
                         ELSE @]

\* selectCharacter(char)
selectCharacter(u, char) == loadCharacterDrawing([u EXCEPT !.currentCharacter = Str(char)])

\* img.onerror: delete letterings[currentCharacter], with currentCharacter
\* read when the handler runs
onerror(u, img) ==
    [u EXCEPT !.letterings = DeleteLettering(@, u.currentCharacter.v), !.images = @ \ {img}]

\* img.onload: the picture is drawn on the cleared canvas
onload(u, img) == [u EXCEPT !.canvas = img.src, !.images = @ \ {img}]

\* saveAndNext after await saveLettering(...) threw: the catch block alerts
\* and changes nothing
AfterSaveFailed(u, call) ==
    [u EXCEPT !.calls = @ \ {call},
              !.done = [k |-> call.k, char |-> call.char, imageData |-> call.imageData,
                        outcome |-> "failed"]]

\* saveAndNext after await saveLettering(...) returned: the next unfinished
\* character, if any, is selected
AfterSaved(u, call) ==
    LET nextChar == findNextUnfinishedCharacter(u.letterings, u.currentCharacter)
        v == [u EXCEPT !.calls = @ \ {call},
                       !.done = [k |-> call.k, char |-> call.char,
                                 imageData |-> call.imageData, outcome |-> "saved"]]
    IN  IF Truthy(nextChar) THEN selectCharacter(v, nextChar.v) ELSE v

\* a click on an item of the character list
SelectClick(char) ==
    /\ ui' = selectCharacter(ui, char)
    /\ Cardinality(ui'.images) <= MaxImages
    /\ UNCHANGED <<deviceOf, db, storage, clock, globalGlyphs, userGlyphs, task, last, saved,
                   saves, reads>>

\* the user draws on the canvas of the selected character, or clears it
\* (clearCanvas)
Draw(picture) ==
    /\ Truthy(ui.currentCharacter)
    /\ ui.canvas # picture
    /\ ui' = [ui EXCEPT !.canvas = picture]
    /\ UNCHANGED <<deviceOf, db, storage, clock, globalGlyphs, userGlyphs, task, last, saved,
                   saves, reads>>

\* resizeCanvas() when the picture of the canvas cannot be kept:
\* loadCharacterDrawing() is called again
Resize ==
    /\ Truthy(ui.currentCharacter)
    /\ ui' = loadCharacterDrawing(ui)
    /\ ui' # ui
    /\ Cardinality(ui'.images) <= MaxImages
    /\ UNCHANGED <<deviceOf, db, storage, clock, globalGlyphs, userGlyphs, task, last, saved,
                   saves, reads>>

\* the load of an Image ends: img.onload or img.onerror
ImageEnds(img, ok) ==
    /\ img \in ui.images
    /\ ui' = IF ok THEN onload(ui, img) ELSE onerror(ui, img)
    /\ UNCHANGED <<deviceOf, db, storage, clock, globalGlyphs, userGlyphs, task, last, saved,
                   saves, reads>>

\* saveAndNext() up to its await: letterings[currentCharacter] = dataURL and
\* saveLettering(currentCharacter, dataURL) up to its first Firestore call
\* (both arguments pass its validation); without Firestore the call ends
\* here.  An empty canvas is saved when the user confirms.
SaveAndNext(fault) ==
    LET d == PageDevice
        char == ui.currentCharacter.v
        dataURL == toDataURL(ui.canvas)
        u == [ui EXCEPT !.letterings = PutLettering(@, char, dataURL)]
        g == getUserId(storage[d], fault, clock[d], Random(d))
        w == LocalSave(g.ls, LocalKey(g.userId, char), dataURL, fault)
        call == [k |-> saves + 1, char |-> char, imageData |-> dataURL, pc |-> "addDoc",
                 userId |-> g.userId, glyphId |-> 0]
    IN  /\ Truthy(ui.currentCharacter)
        /\ saves < MaxSaves
        /\ saves' = saves + 1
        /\ clock' = IF g.minted THEN [clock EXCEPT ![d] = @ + 1] ELSE clock
        /\ IF g.threw
           THEN /\ ui' = AfterSaveFailed(u, call)
                /\ UNCHANGED <<storage, saved>>
           ELSE IF ~db
           THEN IF w.threw
                THEN /\ storage' = [storage EXCEPT ![d] = g.ls]
                     /\ ui' = AfterSaveFailed(u, call)
                     /\ UNCHANGED saved
                ELSE /\ storage' = [storage EXCEPT ![d] = w.ls]
                     /\ saved' = Remember(g.userId, char, dataURL)
                     /\ ui' = AfterSaved(u, call)
           ELSE /\ storage' = [storage EXCEPT ![d] = g.ls]
                /\ ui' = [u EXCEPT !.calls = @ \cup {call}]
                /\ UNCHANGED saved
        /\ UNCHANGED <<deviceOf, db, globalGlyphs, userGlyphs, task, last, reads>>

\* await addDoc(...) of a saveAndNext returns or rejects
PageAddDoc(call, out) ==
    /\ call \in ui.calls
    /\ call.pc = "addDoc"
    /\ IF out = "ok"
       THEN /\ globalGlyphs' = addDoc(globalGlyphs,
                   [char |-> call.char, imageData |-> call.imageData,
                    sourceUserId |-> call.userId])
            /\ ui' = [ui EXCEPT !.calls = (@ \ {call}) \cup
                         {[call EXCEPT !.pc = "setDoc", !.glyphId = Len(globalGlyphs')]}]
       ELSE /\ ui' = AfterSaveFailed(ui, call)
            /\ UNCHANGED globalGlyphs
    /\ UNCHANGED <<deviceOf, db, storage, clock, userGlyphs, task, last, saved, saves, reads>>

\* await setDoc(...) of a saveAndNext returns or rejects
PageSetDoc(call, out) ==
    /\ call \in ui.calls
    /\ call.pc = "setDoc"
    /\ IF out = "ok"
       THEN /\ userGlyphs' = setDocMerge(userGlyphs, call.userId,
                                  CharMapField(call.char), call.glyphId)
            /\ saved' = Remember(call.userId, call.char, call.imageData)
            /\ ui' = AfterSaved(ui, call)
       ELSE /\ ui' = AfterSaveFailed(ui, call)
            /\ UNCHANGED <<userGlyphs, saved>>
    /\ UNCHANGED <<deviceOf, db, storage, clock, globalGlyphs, task, last, saves, reads>>

(***************************************************************************)
(* Specifications.  Each one starts from empty stores, with one page in    *)
(* each of two browsers or two tabs in one browser, and lets the pages     *)
(* call the functions of firebase-storage.js with arguments from a set.    *)
(***************************************************************************)
TwoBrowsers == [t \in Tasks |-> IF t = "t1" THEN "d1" ELSE "d2"]
ValidCharInputs == {Str(CharA), Str(CharB)}
ValidImageInputs == {Str(Img1), Str(Img2)}
ReadOutcomes == {"ok", "unavailable"}
\* characters asked of the pool: 'a', 'b' and 'A'
QueryChars == {CharA, CharB, <<"A">>}

RemoteSteps ==
    \/ \E t \in Tasks, out \in RemoteOutcomes : AddDocStep(t, out)
    \/ \E t \in Tasks, out \in RemoteOutcomes : SetDocStep(t, out)
    \/ \E t \in Tasks, out \in ReadOutcomes, failed \in SUBSET {CharA, CharB} :
           UserDocStep(t, out, failed)

\* Firestore configured: saves and the two loaders
Next ==
    \/ \E t \in Tasks, char \in ValidCharInputs, imageData \in ValidImageInputs :
           SaveCall(t, char, imageData, "none")
    \/ \E t \in Tasks, fn \in Loaders : LoadCall(t, fn, "none")
    \/ RemoteSteps

\* firebase-config.js initialised Firestore; one page in each of two browsers
InitRemote == Init /\ db = TRUE /\ deviceOf = TwoBrowsers

Spec == InitRemote /\ [][Next]_vars

\* Firestore configured; the two pages are two tabs of one browser, with one
\* identity, or pages of two browsers
InitTabs == Init /\ db = TRUE

SpecTabs == InitTabs /\ [][Next]_vars

\* Firestore configured: saves, the two loaders and loadAllLetteringsForInteraction
NextResolve ==
    \/ \E t \in Tasks, char \in ValidCharInputs, imageData \in ValidImageInputs :
           SaveCall(t, char, imageData, "none")
    \/ \E t \in Tasks, required \in RequiredInputs, fault \in StorageFaults :
           ResolveCall(t, required, fault)
    \/ \E t \in Tasks, fn \in Loaders : LoadCall(t, fn, "none")
    \/ RemoteSteps
    \/ \E t \in Tasks, i \in 1..2, out \in ReadOutcomes, pick \in 0..MaxSaves :
           GlobalQueryStep(t, i, out, pick)

SpecResolve == InitRemote /\ [][NextResolve]_vars

\* Firestore configured, localStorage working: saves and
\* loadAllLetteringsForInteraction, every getDoc and getDocs that was
\* started being answered or rejected in the end
NextJoin ==
    \/ \E t \in Tasks, char \in ValidCharInputs, imageData \in ValidImageInputs :
           SaveCall(t, char, imageData, "none")
    \/ \E t \in Tasks, required \in RequiredInputs : ResolveCall(t, required, "none")
    \/ RemoteSteps
    \/ \E t \in Tasks, i \in 1..2, out \in ReadOutcomes, pick \in 0..MaxSaves :
           GlobalQueryStep(t, i, out, pick)

StoreCallsComplete ==
    \A t \in Tasks :
        /\ WF_vars(\E out \in ReadOutcomes, failed \in SUBSET {CharA, CharB} :
                      UserDocStep(t, out, failed))
        /\ \A i \in 1..2 :
               WF_vars(\E out \in ReadOutcomes, pick \in 0..MaxSaves :
                          GlobalQueryStep(t, i, out, pick))

SpecJoin == InitRemote /\ [][NextJoin]_vars /\ StoreCallsComplete

\* Firestore not configured: everything runs on localStorage, which may fail
NextLocal ==
    \/ \E t \in Tasks, fault \in StorageFaults : GetUserIdCall(t, fault)
    \/ \E t \in Tasks, char \in ValidCharInputs, imageData \in ValidImageInputs,
          fault \in StorageFaults : SaveCall(t, char, imageData, fault)
    \/ \E t \in Tasks, fn \in Loaders, fault \in StorageFaults : LoadCall(t, fn, fault)
    \/ \E t \in Tasks, required \in RequiredInputs, fault \in StorageFaults :
           ResolveCall(t, required, fault)
    \/ \E t \in Tasks, char \in QueryChars : QueryCall(t, char)

\* firebase-config.js left db null
InitLocal == Init /\ db = FALSE

SpecLocal == InitLocal /\ [][NextLocal]_vars

\* Firestore configured: saves and getRandomGlobalGlyph
NextQuery ==
    \/ \E t \in Tasks, char \in ValidCharInputs, imageData \in ValidImageInputs :
           SaveCall(t, char, imageData, "none")
    \/ \E t \in Tasks, out \in RemoteOutcomes : AddDocStep(t, out)
    \/ \E t \in Tasks, out \in RemoteOutcomes : SetDocStep(t, out)
    \/ \E t \in Tasks, char \in QueryChars : QueryCall(t, char)
    \/ \E t \in Tasks, out \in ReadOutcomes, pick \in 0..MaxSaves : QueryStep(t, out, pick)

SpecQuery == InitRemote /\ [][NextQuery]_vars

\* sessions with and without Firestore over the same localStorage: saves,
\* the two loaders, and loadAllLetteringsForInteraction with a localStorage
\* that may fail
NextModes ==
    \/ \E t \in Tasks, char \in ValidCharInputs, imageData \in ValidImageInputs :
           SaveCall(t, char, imageData, "none")
    \/ \E t \in Tasks, fn \in Loaders : LoadCall(t, fn, "none")
    \/ \E t \in Tasks, required \in RequiredInputs, fault \in StorageFaults :
           ResolveCall(t, required, fault)
    \/ RemoteSteps
    \/ \E t \in Tasks, i \in 1..2, out \in ReadOutcomes, pick \in 0..MaxSaves :
           GlobalQueryStep(t, i, out, pick)
    \/ \E dbOn \in BOOLEAN : Reload(dbOn)

InitModes == Init /\ deviceOf = TwoBrowsers

SpecModes == InitModes /\ [][NextModes]_vars

\* the interaction page: saves and loadCustomLetteringsFromFirebase, with and
\* without Firestore
NextCustom ==
    \/ \E t \in Tasks, char \in ValidCharInputs, imageData \in ValidImageInputs :
           SaveCall(t, char, imageData, "none")
    \/ \E t \in Tasks, required \in RequiredInputs, fault \in StorageFaults :
           CustomCall(t, required, fault)
    \/ RemoteSteps
    \/ \E t \in Tasks, i \in 1..2, out \in ReadOutcomes, pick \in 0..MaxSaves :
           GlobalQueryStep(t, i, out, pick)
    \/ \E t \in Tasks, ok \in BOOLEAN : ImageStep(t, ok)

\* Firestore initialised or not; one page in each of two browsers
InitCustom == Init /\ deviceOf = TwoBrowsers

SpecCustom == InitCustom /\ [][NextCustom]_vars

\* the drawing page, with and without Firestore, with a localStorage that
\* may fail
PageCalls ==
    [k : 1..MaxSaves, char : Letters,
     imageData : Drawings \cup {ImgBlank}, pc : {"addDoc", "setDoc"},
     userId : {MintToken(1, Random(PageDevice))}, glyphId : 0..MaxSaves]

PageImages == [char : Letters, src : {Img1} \cup Drawings \cup {ImgBlank}]

NextLettering ==
    \/ \E char \in Letters : SelectClick(char)
    \/ \E picture \in Drawings \cup {<< >>} : Draw(picture)
    \/ Resize
    \/ \E img \in PageImages, ok \in BOOLEAN : ImageEnds(img, ok)
    \/ \E fault \in StorageFaults : SaveAndNext(fault)
    \/ \E call \in PageCalls, out \in RemoteOutcomes : PageAddDoc(call, out)
    \/ \E call \in PageCalls, out \in RemoteOutcomes : PageSetDoc(call, out)

\* init() has run: getUserId() stored the token and loadUserLetterings()
\* gave letterings; an earlier visit without Firestore may have saved some
\* characters
InitLettering ==
    /\ deviceOf = TwoBrowsers
    /\ db \in BOOLEAN
    /\ \E earlier \in SUBSET Letters :
          /\ db => earlier = {}
          /\ storage = [d \in Devices |->
                IF d = PageDevice
                THEN [k \in {USER_ID_KEY} \cup
                            {LocalKey(MintToken(1, Random(d)), c) : c \in earlier} |->
                         IF k = USER_ID_KEY THEN MintToken(1, Random(d)) ELSE Img1]
                ELSE EmptyMap]
    /\ clock = [d \in Devices |-> IF d = PageDevice THEN 2 ELSE 1]
    /\ globalGlyphs = << >>
    /\ userGlyphs = EmptyMap
    /\ task = [t \in Tasks |-> IdleTask]
    /\ last = NoCall
    /\ saved = EmptyMap
    /\ saves = 0
    /\ reads = 0
    /\ ui = [NoPage EXCEPT
               !.letterings =
                   IF db THEN RemoteLetterings(globalGlyphs,
                                  CharMapOf(userGlyphs, MintToken(1, Random(PageDevice))), {})
                   ELSE LocalLetterings(storage[PageDevice],
                                        MintToken(1, Random(PageDevice)))]

SpecLettering == InitLettering /\ [][NextLettering]_vars

\* saveLettering with every kind of argument, with and without Firestore
NextValidate ==
    \/ \E t \in Tasks, char \in CharInputs, imageData \in ImageInputs,
          fault \in StorageFaults : SaveCall(t, char, imageData, fault)
    \/ \E t \in Tasks, out \in RemoteOutcomes : AddDocStep(t, out)
    \/ \E t \in Tasks, out \in RemoteOutcomes : SetDocStep(t, out)

InitValidate == Init /\ deviceOf = TwoBrowsers

SpecValidate == InitValidate /\ [][NextValidate]_vars

(***************************************************************************)
(* Properties.                                                             *)
(***************************************************************************)
Range(seq) == {seq[i] : i \in 1..Len(seq)}
Chars == {CharA, CharB}
IsLoad(rec) == rec.op \in Loaders /\ rec.outcome = "returned"
IsResolve(rec) == rec.op = "resolve" /\ rec.outcome = "returned" /\ rec.required.isArray
Required(rec) == Range(FilterValid(rec.required.items))
\* character -> image, as the caller of a loader reads the returned value
OwnImages(rec) ==
    IF rec.op = "loadUserLetterings" THEN rec.value
    ELSE [c \in DOMAIN rec.value.letteringImages |-> rec.value.letteringImages[c].imageData]
HasImage(map, c, img) == c \in DOMAIN map /\ map[c] = img
Latest(userId, c) == saved[<<userId, c>>][Len(saved[<<userId, c>>])]
PoolHas(c) == \E i \in 1..Len(globalGlyphs) : globalGlyphs[i].char = c
Pointer(userId, c) == userGlyphs[userId][CharMapField(c)]

\* C1: the globalGlyphs collection only grows, and a document that was added
\* keeps its char, imageData and sourceUserId, whatever the pages call and
\* however their calls interleave.
AppendOnly ==
    [][/\ Len(globalGlyphs') >= Len(globalGlyphs)
       /\ \A i \in 1..Len(globalGlyphs) : globalGlyphs'[i] = globalGlyphs[i]]_vars

AppendOnlyWitness ==
    /\ Len(globalGlyphs) = 2
    /\ globalGlyphs[1].char = globalGlyphs[2].char
    /\ globalGlyphs[1].sourceUserId = globalGlyphs[2].sourceUserId
    /\ globalGlyphs[1].imageData # globalGlyphs[2].imageData
    /\ IsResolve(last)

\* C2: with Firestore, once an identity saved a and saved b (both calls
\* returned an id), a loader of that identity that fetched the user document
\* returns the image of a and the image of b.
PointerMerge ==
    (IsLoad(last) /\ ~last.ownFail
        /\ <<last.userId, CharA>> \in DOMAIN saved /\ <<last.userId, CharB>> \in DOMAIN saved)
    => /\ HasImage(OwnImages(last), CharA, Latest(last.userId, CharA))
       /\ HasImage(OwnImages(last), CharB, Latest(last.userId, CharB))

\* C3: a character the identity had saved when it called
\* loadAllLetteringsForInteraction comes back with source 'user' and the
\* image the identity saved, whatever the pool holds for that character.
OwnPriority ==
    (IsResolve(last) /\ ~last.ownFail)
    => \A c \in Required(last) :
          <<last.userId, c>> \in last.snap
          => HasImage(last.value, c,
                 [imageData |-> Latest(last.userId, c), source |-> "user"])

\* C4: a character the identity never saved and another identity had saved
\* (the save returned an id) when loadAllLetteringsForInteraction was called
\* comes back with source 'global' and the image of a document of the pool
\* with that char, unless the query for it was rejected.
GlobalFallback ==
    IsResolve(last)
    => \A c \in Required(last) :
          (/\ <<last.userId, c>> \notin DOMAIN saved
           /\ \E k \in last.snap : k[1] # last.userId /\ k[2] = c
           /\ c \notin last.qfail)
          => /\ c \in DOMAIN last.value
             /\ last.value[c].source = "global"
             /\ \E i \in 1..Len(globalGlyphs) :
                    /\ globalGlyphs[i].char = c
                    /\ globalGlyphs[i].imageData = last.value[c].imageData

\* U1 saved a; the fresh U2 asks for a and b and gets a from the pool, not b
GlobalFallbackWitness ==
    /\ IsResolve(last)
    /\ last.required = Arr(<<Str(CharA), Str(CharB)>>)
    /\ DOMAIN saved = {<<MintToken(1, "d1"), CharA>>}
    /\ last.snap = DOMAIN saved
    /\ last.userId = MintToken(1, "d2")
    /\ DOMAIN last.value = {CharA}
    /\ last.value[CharA] = [imageData |-> Latest(MintToken(1, "d1"), CharA), source |-> "global"]

NotNonEmptyString(x) == x.t # "string" \/ x.v = << >>
NotDataUrl(x) == x.t # "string" \/ x.v = << >> \/ x.v[1] # "data:image/"
InvalidErrors ==
    {"Invalid character: must be a non-empty string",
     "Invalid imageData: must be a data URL string"}

InputValidation ==
    [][(/\ saves' = saves + 1
        /\ last'.n # last.n
        /\ last'.op = "save"
        /\ NotNonEmptyString(last'.char) \/ NotDataUrl(last'.imageData))
       => /\ last'.outcome = "threw"
          /\ last'.error \in InvalidErrors
          /\ ~last'.remote
          /\ UNCHANGED <<storage, clock, globalGlyphs, userGlyphs, task>>]_vars

InputValidationWitness ==
    /\ last.op = "save"
    /\ last.char = Str(CharA)
    /\ last.imageData = Str(<<"not-an-image">>)
    /\ last.outcome = "threw"
    /\ Len(globalGlyphs) = 1
    /\ saves = 2

\* C7: without Firestore, a loader returns for every character the identity
\* saved the image of its last save, and no page ever waits for Firestore or
\* writes a collection.
LocalRoundTrip ==
    /\ globalGlyphs = << >> /\ userGlyphs = EmptyMap
    /\ \A t \in Tasks : task[t].pc = "idle"
    /\ ~last.remote
    /\ IsLoad(last)
       => \A c \in Chars :
             <<last.userId, c>> \in DOMAIN saved
             => HasImage(OwnImages(last), c, Latest(last.userId, c))

LocalRoundTripWitness ==
    /\ IsLoad(last)
    /\ \E c \in Chars :
          /\ <<last.userId, c>> \in DOMAIN saved
          /\ DOMAIN OwnImages(last) = {c}
          /\ OwnImages(last)[c] = Img1

\* C8: while localStorage works, getUserId returns a token that starts with
\* 'user_' and is the one stored under 'absurde_user_id'; a stored token is
\* never replaced, so every later call returns the same one.
StoredToken(ls) == getItem(ls, USER_ID_KEY)

StableIdentity ==
    [][/\ \A d \in Devices :
             Truthy(StoredToken(storage[d])) => StoredToken(storage'[d]) = StoredToken(storage[d])
       /\ (last'.n # last.n /\ last'.op = "getUserId" /\ last'.fault = "none")
          => /\ last'.outcome = "returned"
             /\ StartsWith(last'.value, <<"user_">>)
             /\ StoredToken(storage'[last'.device]) = Str(last'.value)
             /\ Truthy(last'.before) => (last'.value = last'.before.v /\ ~last'.minted)]_vars

StableIdentityWitness ==
    /\ last.op = "getUserId" /\ last.fault = "none"
    /\ Truthy(last.before) /\ last.value = last.before.v
    /\ saves = 2

\* C9: when localStorage reads or writes throw, getUserId still returns, and
\* what it returns is a token it minted in this call.
DegradedIdentity ==
    (last.op = "getUserId" /\ last.fault \in {"readThrows", "writeThrows"})
    => (last.outcome = "returned" /\ last.minted)

\* C10: with Firestore, once an identity saved the same character twice
\* (both calls returned an id), its user document holds one pointer for the
\* character, to the document of the second save; both documents are in the
\* pool, and a loader that fetched the user document returns the second image.
ReSave ==
    \A k \in DOMAIN saved :
        Len(saved[k]) >= 2
        => /\ k[1] \in DOMAIN userGlyphs
           /\ CharMapField(k[2]) \in DOMAIN userGlyphs[k[1]]
           /\ Pointer(k[1], k[2]) \in 1..Len(globalGlyphs)
           /\ globalGlyphs[Pointer(k[1], k[2])].imageData = Latest(k[1], k[2])
           /\ Cardinality({i \in 1..Len(globalGlyphs) :
                  globalGlyphs[i].sourceUserId = k[1] /\ globalGlyphs[i].char = k[2]}) >= 2
           /\ (IsLoad(last) /\ ~last.ownFail /\ last.userId = k[1])
              => HasImage(OwnImages(last), k[2], Latest(k[1], k[2]))

\* C11: loadAllLetteringsForInteraction drops the entries of requiredChars
\* that are not non-empty strings without throwing, and every key of the
\* mapping it returns is one of the remaining required characters: a
\* character the identity saved and did not ask for is not in it.
ResultDomain ==
    (last.op = "resolve" /\ last.error # "localStorage")
    => /\ last.outcome = "returned"
       /\ last.required.isArray => DOMAIN last.value \subseteq Required(last)

WriteFaults == {"writeThrows", "quotaExceeded"}
GlyphEntries(ls) == [k \in DOMAIN ls \ {USER_ID_KEY} |-> ls[k]]

StorageUnavailable ==
    [][(/\ last'.n # last.n
        /\ last'.op = "save"
        /\ last'.fault \in WriteFaults)
       => /\ last'.outcome = "threw"
          /\ last'.userId # NoId
             => last'.error = "Failed to save: localStorage not available"
          /\ \A d \in Devices : GlyphEntries(storage'[d]) = GlyphEntries(storage[d])
          /\ saved' = saved
          /\ ~last'.remote]_vars

\* the second save of a is rejected; the entry of the first is still there
StorageUnavailableWitness ==
    /\ last.op = "save" /\ last.fault = "quotaExceeded" /\ last.outcome = "threw"
    /\ last.char = Str(CharA) /\ last.imageData = Str(Img2)
    /\ <<last.userId, CharA>> \in DOMAIN saved
    /\ \E d \in Devices :
          /\ LocalKey(last.userId, CharA) \in DOMAIN storage[d]
          /\ storage[d][LocalKey(last.userId, CharA)] = Img1

\* C14: without Firestore getRandomGlobalGlyph returns null for every
\* character and does not throw, and every entry of a mapping returned by
\* loadAllLetteringsForInteraction has source 'user', whatever other
\* identities saved.
NoPoolWithoutDb ==
    /\ last.op = "query" => (last.outcome = "returned" /\ last.value = Null)
    /\ IsResolve(last) => \A c \in DOMAIN last.value : last.value[c].source = "user"

\* another identity saved a; the caller saved b, asks for a and b and gets b
NoPoolWithoutDbWitness ==
    /\ IsResolve(last)
    /\ last.required = Arr(<<Str(CharA), Str(CharB)>>)
    /\ \E k \in DOMAIN saved : k[1] # last.userId /\ k[2] = CharA
    /\ <<last.userId, CharB>> \in DOMAIN saved
    /\ DOMAIN last.value = {CharB}
    /\ last.value[CharB].source = "user"

\* C15: loadCustomLetteringsFromFirebase always returns (localStorage and
\* Firestore faults and images that do not load included); the keys of what
\* it returns are the characters of letteringData whose image loaded, each
\* with the image letteringData gave it, so an image that fails to load takes
\* no other character away.
RenderNeverFails ==
    last.op = "custom"
    => /\ last.outcome = "returned"
       /\ DOMAIN last.value = DOMAIN last.data \ last.broken
       /\ \A c \in DOMAIN last.value : last.value[c] = last.data[c].imageData

\* a and b were resolved, the image of a did not load, b is returned
RenderNeverFailsWitness ==
    /\ last.op = "custom" /\ last.outcome = "returned"
    /\ DOMAIN last.data = {CharA, CharB}
    /\ last.broken = {CharA}
    /\ DOMAIN last.value = {CharB}

\* C16: with Firestore, when addDoc succeeded and setDoc is rejected,
\* saveLettering throws, the new document stays in globalGlyphs, the user
\* document is what it was before the call, and a loader never returns for
\* a character an image that no saveLettering of the identity that returned
\* an id had stored for it.
SetDocFails(t) ==
    /\ task[t].pc = "setDoc" /\ task'[t].pc = "idle"
    /\ last'.n # last.n /\ last'.outcome = "threw"

NonTransactionalSave ==
    /\ [][\A t \in Tasks :
             SetDocFails(t)
             => /\ last'.op = "save"
                /\ globalGlyphs' = globalGlyphs
                /\ task[t].glyphId \in 1..Len(globalGlyphs)
                /\ globalGlyphs[task[t].glyphId] =
                       [char |-> task[t].char, imageData |-> task[t].imageData,
                        sourceUserId |-> task[t].userId]
                /\ userGlyphs' = userGlyphs
                /\ saved' = saved]_vars
    /\ [](IsLoad(last)
          => \A c \in DOMAIN OwnImages(last) :
                /\ <<last.userId, c>> \in DOMAIN saved
                /\ OwnImages(last)[c] \in Range(saved[<<last.userId, c>>]))

\* the pointer write of the only save was rejected: its document is in the
\* pool, there is no user document, and the loader returns nothing
NonTransactionalSaveWitness ==
    /\ IsLoad(last) /\ ~last.ownFail
    /\ DOMAIN saved = {}
    /\ userGlyphs = EmptyMap
    /\ Len(globalGlyphs) = 1
    /\ globalGlyphs[1].sourceUserId = last.userId
    /\ \A t \in Tasks : task[t].pc = "idle"
    /\ DOMAIN OwnImages(last) = {}

\* C17: with Firestore, saveLettering returns only after addDoc and setDoc
\* both succeeded, and what it returns is the id of the document it added;
\* when one of the two is rejected it throws (the permission and the
\* connection message, or the error itself), makes no further Firestore call
\* and writes nothing to localStorage.
RemoteSaveEnds(t) ==
    /\ task[t].op = "save" /\ task[t].pc \in {"addDoc", "setDoc"}
    /\ task'[t].pc = "idle"

RemoteSaveErrors ==
    {"Permission denied: Please check Firestore security rules",
     "Firestore unavailable: Please check your internet connection",
     "internal"}

IdOnlyOnSuccess ==
    [][\A t \in Tasks :
          RemoteSaveEnds(t)
          => /\ last'.n # last.n /\ last'.op = "save"
             /\ storage' = storage
             /\ last'.outcome = "returned"
                => /\ task[t].pc = "setDoc"
                   /\ last'.value = DocId(task[t].glyphId)
                   /\ globalGlyphs'[task[t].glyphId] =
                          [char |-> task[t].char, imageData |-> task[t].imageData,
                           sourceUserId |-> task[t].userId]
                   /\ userGlyphs'[task[t].userId][CharMapField(task[t].char)] = task[t].glyphId
             /\ last'.outcome # "returned"
                => /\ last'.outcome = "threw"
                   /\ last'.error \in RemoteSaveErrors
                   /\ globalGlyphs' = globalGlyphs /\ userGlyphs' = userGlyphs]_vars

\* setDoc was rejected by the security rules after addDoc succeeded
IdOnlyOnSuccessWitness ==
    /\ last.op = "save" /\ last.outcome = "threw"
    /\ last.error = "Permission denied: Please check Firestore security rules"
    /\ Len(globalGlyphs) = 1
    /\ globalGlyphs[1].sourceUserId = last.userId
    /\ globalGlyphs[1].imageData = last.imageData.v
    /\ DOMAIN saved = {}

\* C18: with Firestore, a loader of an identity without user document
\* returns an empty mapping, and it returns every character the user
\* document points at whose glyph document exists, with the image of that
\* document, whatever happens to the other pointers.
TolerantOwnLoad ==
    (IsLoad(last) /\ ~last.ownFail)
    => /\ last.userId \notin DOMAIN userGlyphs => DOMAIN OwnImages(last) = {}
       /\ last.userId \in DOMAIN userGlyphs
          => \A c \in Chars :
                (/\ CharMapField(c) \in DOMAIN userGlyphs[last.userId]
                 /\ Pointer(last.userId, c) \in 1..Len(globalGlyphs))
                => HasImage(OwnImages(last), c,
                       globalGlyphs[Pointer(last.userId, c)].imageData)

\* the documents of the pool whose char is exactly c
PoolDocs(c) == {i \in 1..Len(globalGlyphs) : globalGlyphs[i].char = c}

\* a step in which getRandomGlobalGlyph returns, with Firestore
QueryReturns == last'.n # last.n /\ last'.op = "query" /\ last'.remote

\* every document of the pool with the char of a pending query can be the
\* one whose image the call returns
EveryMatchPossible ==
    \A t \in Tasks :
        task[t].pc = "query"
        => \A i \in PoolDocs(task[t].char) :
               ENABLED (QueryStep(t, "ok", i)
                        /\ last'.value = Str(globalGlyphs[i].imageData))

\* C19 as stated: with Firestore, getRandomGlobalGlyph(c) returns null
\* exactly when no document of the pool has char c, otherwise the imageData
\* of a document with char c, and every such document can be the one.
RandomGlobalOriginal ==
    /\ [][QueryReturns
          => /\ last'.value = Null <=> PoolDocs(last'.char.v) = {}
             /\ last'.value # Null
                => \E i \in PoolDocs(last'.char.v) :
                       last'.value = Str(globalGlyphs[i].imageData)]_vars
    /\ []EveryMatchPossible

\* C19: with Firestore, a getRandomGlobalGlyph(c) whose query is answered
\* returns null exactly when no document of the pool has char c, otherwise
\* the imageData of a document with char c, and every such document can be
\* the one; a call whose query is rejected returns null.
RandomGlobal ==
    /\ [][QueryReturns
          => /\ last'.qfail # {} => last'.value = Null
             /\ last'.qfail = {}
                => /\ last'.value = Null <=> PoolDocs(last'.char.v) = {}
                   /\ last'.value # Null
                      => \E i \in PoolDocs(last'.char.v) :
                             last'.value = Str(globalGlyphs[i].imageData)]_vars
    /\ []EveryMatchPossible

\* the pool holds 'a' twice with different images, and the query for 'a'
\* returned the image of the second document
RandomGlobalWitness ==
    /\ last.op = "query" /\ last.remote /\ last.qfail = {}
    /\ last.char = Str(CharA)
    /\ Len(globalGlyphs) = 2
    /\ globalGlyphs[1].char = CharA /\ globalGlyphs[1].imageData = Img1
    /\ globalGlyphs[2].char = CharA /\ globalGlyphs[2].imageData = Img2
    /\ last.value = Str(Img2)

\* step 2 of loadAllLetteringsForInteraction starts in this step of t
StartsQueries(t) == task[t].pc # "global" /\ task'[t].pc = "global"

\* a query of t settles in this step
SettlesQuery(t) ==
    /\ task[t].pc = "global"
    /\ task'[t].pc # "global" \/ task'[t].pending # task[t].pending

\* the query of missing[i] was answered and the pool had a document for it
FoundGlobal(t, i, qfail) ==
    task[t].missing[i] \notin qfail /\ PoolDocs(task[t].missing[i]) # {}

IsGlobalEntry(images, c) ==
    /\ c \in DOMAIN images
    /\ images[c].source = "global"
    /\ \E k \in PoolDocs(c) : images[c].imageData = globalGlyphs[k].imageData

\* C20: loadAllLetteringsForInteraction starts the queries of all its
\* missing characters together and any of them can settle first; it returns
\* in the step in which the last of them settles, with the global glyph of
\* every query that found one; and when every getDoc and getDocs settles in
\* the end, a call that was started returns.
FanOutJoin ==
    /\ [][\A t \in Tasks :
            /\ StartsQueries(t)
               => /\ task'[t].missing # << >>
                  /\ task'[t].pending = 1..Len(task'[t].missing)
            /\ SettlesQuery(t)
               => \E i \in task[t].pending :
                     IF task[t].pending = {i}
                     THEN /\ task'[t].pc = "idle"
                          /\ last'.n # last.n /\ IsResolve(last')
                          /\ \A c \in DOMAIN task[t].images :
                                 /\ c \in DOMAIN last'.value
                                 /\ last'.value[c] = task[t].images[c]
                          /\ FoundGlobal(t, i, last'.qfail)
                             => IsGlobalEntry(last'.value, task[t].missing[i])
                     ELSE /\ task'[t].pc = "global"
                          /\ task'[t].pending = task[t].pending \ {i}
                          /\ last'.n = last.n
                          /\ FoundGlobal(t, i, task'[t].qfail)
                             => IsGlobalEntry(task'[t].images, task[t].missing[i])]_vars
    /\ [](\A t \in Tasks :
            task[t].pc = "global"
            => \A i \in task[t].pending :
                   ENABLED (\E out \in ReadOutcomes, pick \in 0..MaxSaves :
                               GlobalQueryStep(t, i, out, pick)))
    /\ \A t \in Tasks :
          (task[t].op = "resolve" /\ task[t].pc # "idle") ~> (task[t].pc = "idle")

\* a call for 'a' and 'b' returned after both queries settled: the one for
\* 'b' was rejected, the one for 'a' found a glyph, which is in the result
FanOutJoinWitness ==
    /\ IsResolve(last) /\ last.outcome = "returned"
    /\ last.required = Arr(<<Str(CharA), Str(CharB)>>)
    /\ last.qfail = {CharB}
    /\ IsGlobalEntry(last.value, CharA)
    /\ DOMAIN last.value = {CharA}

\* the identities whose saveLettering returned an id for a and for b
SavedBoth == {U \in {k[1] : k \in DOMAIN saved} :
                 <<U, CharA>> \in DOMAIN saved /\ <<U, CharB>> \in DOMAIN saved}

\* the user document of U points for c at a document of the pool that a
\* save of U for c added
PointsAtOwnSave(U, c) ==
    /\ U \in DOMAIN userGlyphs
    /\ CharMapField(c) \in DOMAIN userGlyphs[U]
    /\ Pointer(U, c) \in 1..Len(globalGlyphs)
    /\ globalGlyphs[Pointer(U, c)].char = c
    /\ globalGlyphs[Pointer(U, c)].sourceUserId = U
    /\ \E n \in 1..Len(saved[<<U, c>>]) :
           globalGlyphs[Pointer(U, c)].imageData = saved[<<U, c>>][n]

\* C21: with Firestore, when the saves of a and of b of one identity, or the
\* saves of two identities, have returned an id, in whatever order their
\* addDoc and setDoc calls were served, the user document of each identity
\* points for every character it saved at the document of that save.
ConcurrentSaves ==
    \A k \in DOMAIN saved : PointsAtOwnSave(k[1], k[2])

\* two tabs of one browser: the save of a added its document first and
\* returned last, the save of b ran in between
ConcurrentSavesWitness ==
    /\ deviceOf["t1"] = deviceOf["t2"]
    /\ Len(globalGlyphs) = 2
    /\ globalGlyphs[1].char = CharA /\ globalGlyphs[2].char = CharB
    /\ last.op = "save" /\ last.outcome = "returned" /\ last.char = Str(CharA)
    /\ SavedBoth = {last.userId}
    /\ Pointer(last.userId, CharA) = 1 /\ Pointer(last.userId, CharB) = 2

\* the localStorage keys of userId that the loaders read as character c
EntriesOf(ls, userId, c) ==
    {k \in LocalKeys(ls, userId) : ReplaceFirst(k, LocalPrefix(userId)) = c}

\* a step in which saveLettering returns without Firestore
LocalSaveReturns ==
    last'.n # last.n /\ last'.op = "save" /\ last'.outcome = "returned" /\ ~db

\* C22: without Firestore, a saveLettering(c, img) that returns leaves one
\* localStorage entry for the identity and c, holding img (whatever was
\* there before), changes no other glyph entry of any browser, and returns
\* the key of the entry.
LocalOverwrite ==
    [][LocalSaveReturns
       => LET U == last'.userId
              key == LocalKey(U, last'.char.v)
          IN  /\ last'.value = key
              /\ \E d \in Devices :
                    /\ StoredToken(storage'[d]) = Str(U)
                    /\ EntriesOf(storage'[d], U, last'.char.v) = {key}
                    /\ storage'[d][key] = last'.imageData.v
                    /\ DOMAIN GlyphEntries(storage'[d])
                          = DOMAIN GlyphEntries(storage[d]) \cup {key}
                    /\ \A k \in DOMAIN GlyphEntries(storage[d]) \ {key} :
                           storage'[d][k] = storage[d][k]
                    /\ \A e \in Devices \ {d} : storage'[e] = storage[e]]_vars

\* the identity saved a with img1 and then with img2; the one entry of a
\* holds img2
LocalOverwriteWitness ==
    /\ ~db
    /\ last.op = "save" /\ last.outcome = "returned"
    /\ last.char = Str(CharA) /\ last.imageData = Str(Img2)
    /\ saved[<<last.userId, CharA>>] = <<Img1, Img2>>
    /\ last.value = LocalKey(last.userId, CharA)
    /\ \E d \in Devices :
          /\ EntriesOf(storage[d], last.userId, CharA) = {last.value}
          /\ storage[d][last.value] = Img2

\* C24: with Firestore, in every state every field of every user document is
\* the pointer field of a character, and its value is the id of a document
\* of the pool with that character whose sourceUserId is the id of the user
\* document.
PointerIntegrity ==
    \A U \in DOMAIN userGlyphs :
        \A f \in DOMAIN userGlyphs[U] :
            \E c \in Chars :
                /\ f = CharMapField(c)
                /\ userGlyphs[U][f] \in 1..Len(globalGlyphs)
                /\ globalGlyphs[userGlyphs[U][f]].char = c
                /\ globalGlyphs[userGlyphs[U][f]].sourceUserId = U

\* two identities hold a pointer each, for different characters
PointerIntegrityWitness ==
    /\ Cardinality(DOMAIN userGlyphs) = 2
    /\ Len(globalGlyphs) = 2
    /\ globalGlyphs[1].char # globalGlyphs[2].char
    /\ \A t \in Tasks : task[t].pc = "idle"

\* the documents of the pool that the saves of U for c added
DocsOf(U, c) ==
    {i \in 1..Len(globalGlyphs) :
        globalGlyphs[i].sourceUserId = U /\ globalGlyphs[i].char = c}

\* C25: with Firestore, once the saves of an identity for a character have
\* all returned an id, also when they overlapped, the pointer of the
\* identity for the character is the id of the document that was added to
\* the pool last.
LatestWinsOverlap ==
    (\A t \in Tasks : task[t].pc = "idle")
    => \A k \in DOMAIN saved :
          Cardinality(DocsOf(k[1], k[2])) = Len(saved[k])
          => \A i \in DocsOf(k[1], k[2]) : i <= Pointer(k[1], k[2])

\* the images of a mapping a loader or loadAllLetteringsForInteraction returned
ImagesOf(rec) ==
    IF rec.op = "resolve"
    THEN [c \in DOMAIN rec.value |-> rec.value[c].imageData]
    ELSE OwnImages(rec)

ReadReturns(rec) == IsLoad(rec) \/ IsResolve(rec)

\* C26: while db is the Firestore handle, no step of saveLettering, of the
\* loaders or of loadAllLetteringsForInteraction changes a glyph entry of
\* localStorage, and what they return comes from the pool, not from the
\* entries an earlier page without Firestore wrote; while db is null, no step
\* changes a Firestore collection or waits for Firestore, and what they
\* return comes from localStorage.
ModeIsolation ==
    /\ [][/\ (db /\ db')
             => \A d \in Devices : GlyphEntries(storage'[d]) = GlyphEntries(storage[d])
          /\ (~db /\ ~db')
             => /\ globalGlyphs' = globalGlyphs /\ userGlyphs' = userGlyphs
                /\ \A t \in Tasks : task'[t].pc = "idle"
          /\ (last'.n # last.n /\ ReadReturns(last') /\ ~db)
             => /\ ~last'.remote
                /\ \A c \in DOMAIN ImagesOf(last') :
                      \E d \in Devices :
                          /\ LocalKey(last'.userId, c) \in DOMAIN storage'[d]
                          /\ storage'[d][LocalKey(last'.userId, c)] = ImagesOf(last')[c]]_vars
    /\ []((ReadReturns(last) /\ last.remote)
          => \A c \in DOMAIN ImagesOf(last) :
                \E i \in PoolDocs(c) : globalGlyphs[i].imageData = ImagesOf(last)[c])

\* an identity saved a without Firestore; the page was loaded again with
\* Firestore and a loader returned no entry for a
ModeIsolationWitness ==
    /\ IsLoad(last) /\ last.remote /\ ~last.ownFail
    /\ DOMAIN OwnImages(last) = {}
    /\ globalGlyphs = << >>
    /\ \E d \in Devices :
          /\ LocalKey(last.userId, CharA) \in DOMAIN storage[d]
          /\ storage[d][LocalKey(last.userId, CharA)] = Img1

\* a step of a loadAllLetteringsForInteraction call: the call itself, or one
\* of its Firestore calls being answered
ResolveStep ==
    \/ last'.n # last.n /\ last'.op = "resolve"
    \/ \E t \in Tasks :
          /\ task'[t] # task[t]
          /\ task[t].op = "resolve" \/ task'[t].op = "resolve"

\* C27: no step of loadAllLetteringsForInteraction, whatever requiredChars
\* is, with or without Firestore and whatever fails, adds or changes a
\* document of globalGlyphs or of userGlyphs or a glyph entry of
\* localStorage; the only key it may write is 'absurde_user_id'.
ResolveReadOnly ==
    [][ResolveStep
       => /\ globalGlyphs' = globalGlyphs
          /\ userGlyphs' = userGlyphs
          /\ \A d \in Devices :
                /\ GlyphEntries(storage'[d]) = GlyphEntries(storage[d])
                /\ DOMAIN storage'[d] \ DOMAIN storage[d] \subseteq {USER_ID_KEY}]_vars

\* a first call on a browser with Firestore: the token was written, a glyph
\* was found in the pool, and the stores are as before
ResolveReadOnlyWitness ==
    /\ IsResolve(last) /\ last.remote
    /\ \E c \in DOMAIN last.value : last.value[c].source = "global"
    /\ \E d \in Devices : StoredToken(storage[d]) = Str(last.userId)
    /\ Len(globalGlyphs) = 1
    /\ last.userId \notin DOMAIN userGlyphs

\* C28: with Firestore, a loadAllLetteringsForInteraction whose getDoc of the
\* user document was rejected does not throw; every entry it returns has
\* source 'global' and the image of a pool document of that character, and
\* every required character another call had saved gets an entry unless its
\* own query was rejected.
OwnFetchFailure ==
    (last.op = "resolve" /\ last.ownFail)
    => /\ last.outcome = "returned"
       /\ \A c \in DOMAIN last.value :
             /\ c \in Required(last)
             /\ last.value[c].source = "global"
             /\ \E i \in PoolDocs(c) : globalGlyphs[i].imageData = last.value[c].imageData
       /\ \A c \in Required(last) :
             ((\E k \in last.snap : k[2] = c) /\ c \notin last.qfail)
             => c \in DOMAIN last.value

\* the identity had saved a; its getDoc was rejected and a came back from
\* the pool with source 'global', b had no glyph
OwnFetchFailureWitness ==
    /\ IsResolve(last) /\ last.ownFail
    /\ last.required = Arr(<<Str(CharA), Str(CharB)>>)
    /\ <<last.userId, CharA>> \in last.snap
    /\ DOMAIN last.value = {CharA}
    /\ last.value[CharA].source = "global"
    /\ last.qfail = {}

\* a step in which a saveAndNext ends in its catch block
SaveFails == ui'.done.k # ui.done.k /\ ui'.done.outcome = "failed"

\* C23: when the saveLettering of a saveAndNext throws, letterings holds for
\* the character of the call the picture that was on the canvas (or the
\* picture of a later saveAndNext), currentCharacter is not changed, and a
\* further saveAndNext can be made for the current character.
DrawingKept ==
    /\ [][SaveFails
          => /\ HasLettering(ui'.letterings, ui'.done.char)
             /\ \/ ui'.letterings[ui'.done.char] = ui'.done.imageData
                \/ ui'.done.k < saves'
             /\ ui'.currentCharacter = ui.currentCharacter]_vars
    /\ []((ui.done.outcome = "failed" /\ saves < MaxSaves)
          => ENABLED (\E fault \in StorageFaults :
                         /\ SaveAndNext(fault)
                         /\ \/ ui'.done.char = ui.currentCharacter.v /\ ui'.done.k = saves'
                            \/ \E call \in ui'.calls :
                                  call.char = ui.currentCharacter.v /\ call.k = saves'))

\* C29: when the load of the saved drawing of a character ends (the image
\* leaves the pending loads), no entry of letterings other than the entry
\* of that character is removed or changed, whatever character is
\* selected by then.
CleanupHitsLoaded ==
    [][\A img \in ui.images :
          img \notin ui'.images
          => \A char \in DOMAIN ui.letterings \ {img.char} :
                 /\ char \in DOMAIN ui'.letterings
                 /\ ui'.letterings[char] = ui.letterings[char]]_vars

\* the positions of the characters, other than the current one, that have
\* no lettering
Unfinished(letterings, currentCharacter) ==
    {i \in 1..Len(uniqueCharacters) :
        /\ uniqueCharacters[i] # currentCharacter.v
        /\ ~HasLettering(letterings, uniqueCharacters[i])}

\* how many positions after the current character position i comes when
\* the list is walked to its end and then from its start
StepsAfterCurrent(currentCharacter, i) ==
    IF i > IndexOf(currentCharacter.v)
    THEN i - IndexOf(currentCharacter.v)
    ELSE i - IndexOf(currentCharacter.v) + Len(uniqueCharacters)

\* a step in which a saveAndNext ends after a successful saveLettering
SaveSucceeds == ui'.done.k # ui.done.k /\ ui'.done.outcome = "saved"

\* C30: findNextUnfinishedCharacter returns the character without a
\* lettering that comes first when uniqueCharacters is walked from the
\* position after currentCharacter to the end and then from the start up to
\* currentCharacter; it returns null exactly when every character other than
\* currentCharacter has a lettering; it never returns currentCharacter; and a
\* saveAndNext that succeeds selects the character it returns.
NextUnfinished ==
    /\ [](LET nextChar == findNextUnfinishedCharacter(ui.letterings, ui.currentCharacter)
              unfinished == Unfinished(ui.letterings, ui.currentCharacter)
          IN  /\ nextChar = Null <=> unfinished = {}
              /\ nextChar # Null
                 => \E i \in unfinished :
                       /\ nextChar = Str(uniqueCharacters[i])
                       /\ \A j \in unfinished :
                             StepsAfterCurrent(ui.currentCharacter, i)
                                <= StepsAfterCurrent(ui.currentCharacter, j)
              /\ nextChar # ui.currentCharacter \/ ui.currentCharacter = Null)
    /\ [][SaveSucceeds
          => LET unfinished == Unfinished(ui'.letterings, ui.currentCharacter)
             IN  IF unfinished = {}
                 THEN ui'.currentCharacter = ui.currentCharacter
                 ELSE \E i \in unfinished :
                         /\ ui'.currentCharacter = Str(uniqueCharacters[i])
                         /\ \A j \in unfinished :
                               StepsAfterCurrent(ui.currentCharacter, i)
                                  <= StepsAfterCurrent(ui.currentCharacter, j)]_vars

\* the save of 'b' succeeded with 'c' lettered and 'a' not: the scan went
\* past the end of the list and 'a' is selected
NextUnfinishedWitness ==
    /\ ui.done.outcome = "saved"
    /\ ui.done.char = CharB
    /\ ui.currentCharacter = Str(CharA)
    /\ HasLettering(ui.letterings, CharB)
    /\ HasLettering(ui.letterings, CharC)
    /\ ~HasLettering(ui.letterings, CharA)

====
